---- MODULE Spec2Model ----
(***************************************************************************)
(* Model of the life_expectancy package: the loader registry               *)
(* (data_loaders.py) and the cleaning pipeline (cleaning.py).              *)
(*                                                                         *)
(* Text is a sequence of one-character strings, so that str.strip, the     *)
(* regular expression of clean_types, str.split, int() and pd.to_numeric   *)
(* are computed character by character.  A DataFrame is a record           *)
(*   [columns |-> labels, data |-> one sequence of cells per column,       *)
(*    index |-> row labels]                                                *)
(* and a cell is a record [k, s, m, e]: text s (k = "str"), the decimal    *)
(* number m / 10^e (k = "num", kept normalised), NaN (k = "nan"), an       *)
(* infinity (k = "inf") or a missing object None (k = "none").             *)
(***************************************************************************)
EXTENDS Integers, Sequences, FiniteSets, TLC

\* ------------------------------------------------------------------ bounds
MaxRows == 2
MaxYearCols == 2

\* -------------------------------------------------------------------- text
Digits == {"0", "1", "2", "3", "4", "5", "6", "7", "8", "9"}

Whitespace == {" ", "\t"}

DigitVal(c) ==
  CASE c = "0" -> 0 [] c = "1" -> 1 [] c = "2" -> 2 [] c = "3" -> 3
    [] c = "4" -> 4 [] c = "5" -> 5 [] c = "6" -> 6 [] c = "7" -> 7
    [] c = "8" -> 8 [] c = "9" -> 9

DigitChar(n) ==
  CASE n = 0 -> "0" [] n = 1 -> "1" [] n = 2 -> "2" [] n = 3 -> "3"
    [] n = 4 -> "4" [] n = 5 -> "5" [] n = 6 -> "6" [] n = 7 -> "7"
    [] n = 8 -> "8" [] n = 9 -> "9"

\* str.lower, on the letters the paths of the model use
Lower(c) ==
  CASE c = "T" -> "t" [] c = "S" -> "s" [] c = "V" -> "v" [] c = "J" -> "j"
    [] c = "O" -> "o" [] c = "N" -> "n" [] c = "C" -> "c" [] c = "P" -> "p"
    [] c = "E" -> "e" [] c = "F" -> "f" [] c = "R" -> "r"
    [] OTHER -> c

LowerStr(s) == [i \in 1..Len(s) |-> Lower(s[i])]

RECURSIVE LStrip(_)
LStrip(s) ==
  IF s # <<>> /\ Head(s) \in Whitespace THEN LStrip(Tail(s)) ELSE s

RECURSIVE RStrip(_)
RStrip(s) ==
  IF s # <<>> /\ s[Len(s)] \in Whitespace
    THEN RStrip(SubSeq(s, 1, Len(s) - 1))
    ELSE s

\* str.strip()
Strip(s) == RStrip(LStrip(s))

IsDigitOrDot(c) == c \in Digits \cup {"."}

\* the same with a comma read as the decimal separator
ReplaceNonNumeric_CommaAsPeriod(s) ==
  SelectSeq([i \in 1..Len(s) |-> IF s[i] = "," THEN "." ELSE s[i]], IsDigitOrDot)

\* str.replace(r'[^0-9.]', '', regex=True)
ReplaceNonNumeric(s) == SelectSeq(s, IsDigitOrDot)

\* the value of a sequence of digits
RECURSIVE DigitsValue(_)
DigitsValue(s) ==
  IF s = <<>> THEN 0
  ELSE 10 * DigitsValue(SubSeq(s, 1, Len(s) - 1)) + DigitVal(s[Len(s)])

\* the decimal digits of a natural number
RECURSIVE NatToStr(_)
NatToStr(n) ==
  IF n < 10 THEN <<DigitChar(n)>>
  ELSE Append(NatToStr(n \div 10), DigitChar(n % 10))

RECURSIVE Pow10(_)
Pow10(e) == IF e = 0 THEN 1 ELSE 10 * Pow10(e - 1)

\* position of the first c in s, 0 when there is none
RECURSIVE FindFrom(_, _, _)
FindFrom(s, c, i) ==
  IF i > Len(s) THEN 0
  ELSE IF s[i] = c THEN i
  ELSE FindFrom(s, c, i + 1)

Find(s, c) == FindFrom(s, c, 1)

\* position of the last c in s, 0 when there is none
RECURSIVE RFindFrom(_, _, _)
RFindFrom(s, c, i) ==
  IF i = 0 THEN 0
  ELSE IF s[i] = c THEN i
  ELSE RFindFrom(s, c, i - 1)

RFind(s, c) == RFindFrom(s, c, Len(s))

\* str.split(sep): the fields between the separators
RECURSIVE SplitOn(_, _)
SplitOn(s, sep) ==
  LET p == Find(s, sep) IN
  IF p = 0 THEN <<s>>
  ELSE <<SubSeq(s, 1, p - 1)>> \o SplitOn(SubSeq(s, p + 1, Len(s)), sep)

\* ------------------------------------------------------------------- cells
Str(s) == [k |-> "str", s |-> s, m |-> 0, e |-> 0]

NaN == [k |-> "nan", s |-> <<>>, m |-> 0, e |-> 0]

Inf == [k |-> "inf", s |-> <<>>, m |-> 0, e |-> 0]

None == [k |-> "none", s |-> <<>>, m |-> 0, e |-> 0]

\* a number is kept with no trailing zero in its fraction: 1.50 is 15 / 10^1
RECURSIVE Normalise(_, _)
Normalise(m, e) ==
  IF e > 0 /\ m % 10 = 0 THEN Normalise(m \div 10, e - 1)
  ELSE [k |-> "num", s |-> <<>>, m |-> m, e |-> e]

Num(m, e) == Normalise(m, e)

IsNumeric(c) == c.k \in {"num", "nan", "inf"}

IsIntegral(c) == c.k = "num" /\ c.e = 0

\* ------------------------------------------------------ numeric conversions
\* int(text): an optional sign and one or more digits, surrounding
\* whitespace ignored; anything else is a ValueError (ok = FALSE)
IntParse(s) ==
  LET t == Strip(s)
      signed == t # <<>> /\ Head(t) \in {"+", "-"}
      body == IF signed THEN Tail(t) ELSE t
      good == body # <<>> /\ \A i \in 1..Len(body) : body[i] \in Digits
      v == IF good THEN DigitsValue(body) ELSE 0
  IN [ok |-> good, n |-> IF signed /\ Head(t) = "-" THEN 0 - v ELSE v]

\* pd.to_numeric(text, errors='coerce'): an optional sign, digits with at
\* most one period and at least one digit; anything else is coerced to NaN
ToNumericStr(s) ==
  LET t == Strip(s)
      signed == t # <<>> /\ Head(t) \in {"+", "-"}
      body == IF signed THEN Tail(t) ELSE t
      p == Find(body, ".")
      whole == IF p = 0 THEN body ELSE SubSeq(body, 1, p - 1)
      frac == IF p = 0 THEN <<>> ELSE SubSeq(body, p + 1, Len(body))
      good == /\ Len(whole) + Len(frac) > 0
              /\ \A i \in 1..Len(whole) : whole[i] \in Digits
              /\ \A i \in 1..Len(frac) : frac[i] \in Digits
      v == IF good THEN DigitsValue(whole \o frac) ELSE 0
  IN IF ~good THEN NaN
     ELSE Num(IF signed /\ Head(t) = "-" THEN 0 - v ELSE v, Len(frac))

\* the fraction digits of m / 10^e, e of them
RECURSIVE FracDigits(_, _)
FracDigits(m, e) ==
  IF e = 0 THEN <<>>
  ELSE Append(FracDigits(m \div 10, e - 1), DigitChar(m % 10))

\* str(x) of a cell, as Series.astype(str) writes it
AsStr(c) ==
  CASE c.k = "str" -> c.s
    [] c.k = "nan" -> <<"n", "a", "n">>
    [] c.k = "inf" -> <<"i", "n", "f">>
    [] c.k = "none" -> <<"N", "o", "n", "e">>
    [] c.k = "num" ->
         LET a == IF c.m < 0 THEN 0 - c.m ELSE c.m
             sign == IF c.m < 0 THEN <<"-">> ELSE <<>>
         IN sign \o NatToStr(a \div Pow10(c.e)) \o <<".">>
              \o (IF c.e = 0 THEN <<"0">> ELSE FracDigits(a % Pow10(c.e), c.e))

\* -------------------------------------------------------------- DataFrames
cUnit == <<"u", "n", "i", "t">>

cSex == <<"s", "e", "x">>

cAge == <<"a", "g", "e">>

cRegion == <<"r", "e", "g", "i", "o", "n">>

cYear == <<"y", "e", "a", "r">>

cValue == <<"v", "a", "l", "u", "e">>

cCountry == <<"c", "o", "u", "n", "t", "r", "y">>

cLifeExpectancy ==
  <<"l", "i", "f", "e", "_", "e", "x", "p", "e", "c", "t", "a", "n", "c", "y">>

cFlag == <<"f", "l", "a", "g">>

RangeIndex(n) == [i \in 1..n |-> i - 1]

DataFrame(columns, data, index) ==
  [columns |-> columns, data |-> data, index |-> index]

EmptyFrame == DataFrame(<<>>, <<>>, <<>>)

NRows(df) == Len(df.index)

NCols(df) == Len(df.columns)

HasColumn(df, label) == Find(df.columns, label) # 0

Column(df, label) == df.data[Find(df.columns, label)]

\* row i of the frame, one cell per column
Row(df, i) == [j \in 1..NCols(df) |-> df.data[j][i]]

Rows(df) == [i \in 1..NRows(df) |-> Row(df, i)]

\* the dtype pandas gives a column holding these cells
DType(col) ==
  IF col = <<>> \/ \E i \in 1..Len(col) : col[i].k \in {"str", "none"}
    THEN "object"
  ELSE IF \A i \in 1..Len(col) : IsIntegral(col[i]) THEN "int64"
  ELSE "float64"

\* df[label] = col: replaces the column in place, or appends a new one
SetColumn(df, label, col) ==
  LET p == Find(df.columns, label) IN
  IF p # 0
    THEN [df EXCEPT !.data[p] = col]
    ELSE [df EXCEPT !.columns = Append(@, label), !.data = Append(@, col)]

\* the positions of seq kept by a boolean mask
RECURSIVE MaskPositions(_, _)
MaskPositions(mask, i) ==
  IF i > Len(mask) THEN <<>>
  ELSE (IF mask[i] THEN <<i>> ELSE <<>>) \o MaskPositions(mask, i + 1)

\* df[mask]: the rows whose mask is true, columns and index labels kept
TakeRows(df, pos) ==
  DataFrame(df.columns,
            [j \in 1..NCols(df) |-> [r \in 1..Len(pos) |-> df.data[j][pos[r]]]],
            [r \in 1..Len(pos) |-> df.index[pos[r]]])

\* a function's result: the frame it returns, or the exception it raises
Returns(df) == [ok |-> TRUE, df |-> df, err |-> "none"]

Raises(e) == [ok |-> FALSE, df |-> EmptyFrame, err |-> e]

\* ------------------------------------------------------------- cleaning.py
MetadataColumns == <<cUnit, cSex, cAge, cRegion>>

\* Series.str.split(",", expand=True): one list of fields per text cell,
\* [NaN] for a cell that is not text
SplitCell(c) == IF c.k = "str" THEN [i \in 1..Len(SplitOn(c.s, ",")) |->
                                        Str(SplitOn(c.s, ",")[i])]
                ELSE <<NaN>>

RECURSIVE MaxLen(_)
MaxLen(lists) ==
  IF lists = <<>> THEN 0
  ELSE LET rest == MaxLen(Tail(lists)) IN
       IF Len(Head(lists)) > rest THEN Len(Head(lists)) ELSE rest

\* the expanded frame's column p: a short list is padded with None, a
\* missing cell is NaN across the row
ExpandedColumn(lists, p) ==
  [i \in 1..Len(lists) |->
     IF lists[i] = <<NaN>> THEN NaN
     ELSE IF p <= Len(lists[i]) THEN lists[i][p]
     ELSE None]

RECURSIVE SetColumns(_, _, _, _)
SetColumns(df, labels, lists, p) ==
  IF p > Len(labels) THEN df
  ELSE SetColumns(SetColumn(df, labels[p], ExpandedColumn(lists, p)),
                  labels, lists, p + 1)

split_metadata_columns(df) ==
  IF NCols(df) = 0 THEN Raises("IndexError")
  ELSE IF DType(df.data[1]) # "object" THEN Raises("AttributeError")
  ELSE LET lists == [i \in 1..NRows(df) |-> SplitCell(df.data[1][i])] IN
       \* the four labels take the expanded frame's columns one to one
       IF MaxLen(lists) # Len(MetadataColumns) THEN Raises("ValueError")
       ELSE Returns(SetColumns(df, MetadataColumns, lists, 1))

\* df.columns[1:-4]: the positions (from 1) of the sliced labels
YearColumnPositions(df) ==
  IF NCols(df) - 4 < 2 THEN <<>>
  ELSE [j \in 1..(NCols(df) - 5) |-> j + 1]

\* the same taken source row by source row
MeltSource_RowMajor(t, n, k) == << ((t - 1) \div k) + 1, ((t - 1) % k) + 1 >>

\* pd.melt stacks the value columns one after the other, each with all the
\* frame's rows: output row t (from 1) of n rows and k value columns comes
\* from source row MeltSource[1] and value column MeltSource[2]
MeltSource(t, n, k) == << ((t - 1) % n) + 1, ((t - 1) \div n) + 1 >>

\* the same with value_name before var_name
MeltColumns_ValueFirst == MetadataColumns \o <<cValue, cYear>>

\* id_vars, then var_name and value_name
MeltColumns == MetadataColumns \o <<cYear, cValue>>

melt_years(df) ==
  LET ycols == YearColumnPositions(df)
      n == NRows(df)
      k == Len(ycols)
  IN
  IF \E p \in 1..Len(MetadataColumns) : ~HasColumn(df, MetadataColumns[p])
    THEN Raises("KeyError")
  ELSE Returns(DataFrame(
         MeltColumns,
         [c \in 1..6 |->
            [t \in 1..(n * k) |->
               LET src == MeltSource(t, n, k) IN
               IF MeltColumns[c] = cYear THEN Str(df.columns[ycols[src[2]]])
               ELSE IF MeltColumns[c] = cValue THEN df.data[ycols[src[2]]][src[1]]
               ELSE Column(df, MeltColumns[c])[src[1]]]],
         RangeIndex(n * k)))

\* Series.str.strip() on an object column: NaN for a cell that is not text
StrStrip(c) == IF c.k = "str" THEN Str(Strip(c.s)) ELSE NaN

\* astype(int) of one cell: text goes through int(), a float is truncated,
\* NaN, an infinity and None cannot be converted
CanAsInt(c) ==
  CASE c.k = "str" -> IntParse(c.s).ok
    [] c.k = "num" -> TRUE
    [] OTHER -> FALSE

AsInt(c) ==
  IF c.k = "str" THEN Num(IntParse(c.s).n, 0)
  ELSE Num((IF c.m < 0 THEN 0 - ((0 - c.m) \div Pow10(c.e))
            ELSE c.m \div Pow10(c.e)), 0)

\* the 'value' text after astype(str).str.strip().str.replace(...)
CleanValueText(c) == ReplaceNonNumeric(Strip(AsStr(c)))

\* pd.to_numeric(errors='coerce') of one cell
ToNumeric(c) ==
  CASE c.k = "str" -> ToNumericStr(c.s)
    [] c.k = "none" -> NaN
    [] OTHER -> c

\* Series.isna(): NaN and None are missing, an infinity is not
IsNA(c) == c.k \in {"nan", "none"}

\* df.dropna(subset=[label])
dropna(df, label) ==
  TakeRows(df, MaskPositions([i \in 1..NRows(df) |-> ~IsNA(Column(df, label)[i])], 1))

YearConverted(df) ==
  LET col == Column(df, cYear) IN
  IF DType(col) = "object"
    THEN [i \in 1..Len(col) |-> StrStrip(col[i])]
    ELSE col

ValueConverted(df) ==
  LET col == Column(df, cValue) IN
  IF DType(col) = "object"
    THEN [i \in 1..Len(col) |-> ToNumeric(Str(CleanValueText(col[i])))]
    ELSE [i \in 1..Len(col) |-> ToNumeric(col[i])]

\* what the local name df of clean_types refers to after the assignments of
\* lines 114-128, which are made in place, and before dropna, which makes a
\* new frame: an assignment whose right-hand side raised was not made
AssignedInPlace(df) ==
  IF ~HasColumn(df, cYear) THEN df
  ELSE LET years == YearConverted(df) IN
       IF \E i \in 1..Len(years) : ~CanAsInt(years[i]) THEN df
       ELSE LET typed == SetColumn(df, cYear, [i \in 1..Len(years) |-> AsInt(years[i])])
            IN IF ~HasColumn(df, cValue) THEN typed
               ELSE SetColumn(typed, cValue, ValueConverted(typed))

\* the same with the years coerced like the values: a row whose year is
\* no integer is dropped
clean_types_CoerceYear(df) ==
  IF ~HasColumn(df, cYear) \/ ~HasColumn(df, cValue) THEN Raises("KeyError")
  ELSE LET years == YearConverted(df)
           kept == TakeRows(df, MaskPositions(
                     [i \in 1..Len(years) |-> CanAsInt(years[i])], 1))
           typed == SetColumn(kept, cYear,
                      [i \in 1..NRows(kept) |-> AsInt(YearConverted(kept)[i])])
       IN Returns(dropna(SetColumn(typed, cValue, ValueConverted(typed)), cValue))

clean_types(df) ==
  IF ~HasColumn(df, cYear) THEN Raises("KeyError")
  ELSE LET years == YearConverted(df) IN
       IF \E i \in 1..Len(years) : ~CanAsInt(years[i]) THEN Raises("ValueError")
       ELSE IF ~HasColumn(df, cValue) THEN Raises("KeyError")
       ELSE LET typed == SetColumn(df, cYear, [i \in 1..Len(years) |-> AsInt(years[i])])
            IN Returns(dropna(SetColumn(typed, cValue, ValueConverted(typed)), cValue))

\* the same with the codes compared in lower case
filter_country_IgnoreCase(df, country) ==
  IF ~HasColumn(df, cRegion) THEN Raises("KeyError")
  ELSE Returns(TakeRows(df,
         MaskPositions([i \in 1..NRows(df) |->
                          /\ Column(df, cRegion)[i].k = "str"
                          /\ LowerStr(Column(df, cRegion)[i].s) = LowerStr(country)], 1)))

\* df[df['region'] == country.value].copy()
filter_country(df, country) ==
  IF ~HasColumn(df, cRegion) THEN Raises("KeyError")
  ELSE Returns(TakeRows(df,
         MaskPositions([i \in 1..NRows(df) |-> Column(df, cRegion)[i] = Str(country)], 1)))

CanonicalColumns == <<cUnit, cSex, cAge, cRegion, cYear, cValue>>

\* the same asking only for the columns the comment of line 171 names
is_long_format_KeyColumns(df) ==
  HasColumn(df, cRegion) /\ HasColumn(df, cYear) /\ HasColumn(df, cValue)

is_long_format(df) ==
  \A p \in 1..Len(CanonicalColumns) : HasColumn(df, CanonicalColumns[p])

\* df.reset_index(drop=True)
reset_index(df) == [df EXCEPT !.index = RangeIndex(NRows(df))]

\* --------------------------------------------------------- data_loaders.py
\* Path(file_path).suffix: from the last period of the final path
\* component, unless that period starts or ends the component
Suffix(path) ==
  LET name == SubSeq(path, RFind(path, "/") + 1, Len(path))
      p == RFind(name, ".")
  IN IF p > 1 /\ p < Len(name) THEN SubSeq(name, p, Len(name)) ELSE <<>>

TsvSuffix == <<".", "t", "s", "v">>

JsonSuffix == <<".", "j", "s", "o", "n">>

\* the registry of get_data_loader, in its insertion order
LoaderSuffixes == <<TsvSuffix, JsonSuffix>>

LoaderNames == <<"TSVDataLoader", "JSONDataLoader">>

\* the same without .lower()
get_data_loader_CaseSensitive(path) ==
  LET file_extension == Suffix(path)
      p == Find(LoaderSuffixes, file_extension)
  IN IF p = 0
       THEN [ok |-> FALSE, loader |-> "None", err |-> "ValueError",
             extension |-> file_extension, supported |-> LoaderSuffixes]
       ELSE [ok |-> TRUE, loader |-> LoaderNames[p], err |-> "none",
             extension |-> file_extension, supported |-> <<>>]

\* loaders.get(file_extension): the loader's name, or "None"
get_data_loader(path) ==
  LET file_extension == LowerStr(Suffix(path))
      p == Find(LoaderSuffixes, file_extension)
  IN IF p = 0
       THEN [ok |-> FALSE, loader |-> "None", err |-> "ValueError",
             extension |-> file_extension, supported |-> LoaderSuffixes]
       ELSE [ok |-> TRUE, loader |-> LoaderNames[p], err |-> "none",
             extension |-> file_extension, supported |-> <<>>]

\* DataFrame.rename(columns={old: new})
RenameColumn(df, old, new) ==
  [df EXCEPT !.columns = [j \in 1..Len(@) |-> IF @[j] = old THEN new ELSE @[j]]]

\* df[labels]: the named columns, in the order asked for
SelectColumns(df, labels) ==
  IF \E p \in 1..Len(labels) : ~HasColumn(df, labels[p]) THEN Raises("KeyError")
  ELSE Returns(DataFrame(labels,
                         [p \in 1..Len(labels) |-> Column(df, labels[p])],
                         df.index))

\* TSVDataLoader.load: the frame pd.read_csv parses from the file
TSVLoad(file) ==
  IF ~file.exists THEN Raises("FileNotFoundError") ELSE Returns(file.frame)

\* JSONDataLoader.load: pd.read_json, the two renames, the projection
JSONLoad(file) ==
  IF ~file.exists THEN Raises("FileNotFoundError")
  ELSE SelectColumns(
         RenameColumn(RenameColumn(file.frame, cCountry, cRegion),
                      cLifeExpectancy, cValue),
         CanonicalColumns)

\* to_csv(index=False): the header and the rows, the index left out
CsvOf(df) == [columns |-> df.columns, rows |-> Rows(df)]

\* f"{country.lower()}_life_expectancy.csv"
OutputFile(country) ==
  LowerStr(country) \o <<"_">> \o cLifeExpectancy \o <<".", "c", "s", "v">>

\* ------------------------------------------------------------------ inputs
PT == <<"P", "T">>

ES == <<"E", "S">>

FR == <<"F", "R">>

\* the region codes of the Region enumeration
Regions == {PT, ES, FR}

ptLower == <<"p", "t">>

cGeo == <<"g", "e", "o">>

\* a composed key "Y,M,A,<region>"
Key(region) == <<"Y", ",", "M", ",", "A", ",">> \o region

KeyThree == <<"Y", ",", "M", ",", "P", "T">>

KeyFive == Key(PT) \o <<",", "x">>

GoodYearLabels ==
  << <<"2", "0", "2", "1", " ">>, <<"2", "0", "2", "0">>,
     <<" ", "2", "0", "1", "9">>, <<"2", "0", "1", "8">> >>

BadYearLabel == <<"2", "0", "2", "x">>

\* cells of the wide file: a flagged figure and the missing-data token
FlaggedCell == Str(<<"7", ".", "5", " ", "e">>)

MissingCell == Str(<<":", " ">>)

\* the rows of y year cells with at most one figure missing
WideRows(y) ==
  { [j \in 1..y |-> IF j = m THEN MissingCell ELSE FlaggedCell] : m \in 0..y }

\* a frame from its rows, each a sequence with one cell per column
FrameOfRows(columns, rows) ==
  DataFrame(columns,
            [j \in 1..Len(columns) |-> [i \in 1..Len(rows) |-> rows[i][j]]],
            RangeIndex(Len(rows)))

WideFrame(keys, labels, cells) ==
  FrameOfRows(<<cGeo>> \o labels,
              [i \in 1..Len(keys) |-> <<Str(keys[i])>> \o cells[i]])

Shapes == (0..MaxRows) \X (0..MaxYearCols)

\* well-formed wide tables: every key has four fields, every label is a year
RegularWide ==
  UNION { { WideFrame(keys, SubSeq(GoodYearLabels, 1, sh[2]), cells) :
              keys \in [1..sh[1] -> {Key(PT), Key(ES)}],
              cells \in [1..sh[1] -> WideRows(sh[2])] } :
          sh \in Shapes }

\* the cell the irregular tables put in row i, year column j
FillerCell(i, j) == Str(<<DigitChar(i), ".", DigitChar(j)>>)

FillerCells(r, y) == [i \in 1..r |-> [j \in 1..y |-> FillerCell(i, j)]]

FillerKeys(r, first) == [i \in 1..r |-> IF i = 1 THEN first ELSE Key(PT)]

\* read_csv makes a column whose cells are all numbers a float64 column
NumericFirstColumn(cells) ==
  [i \in 1..Len(cells) |->
     [j \in 1..Len(cells[i]) |-> IF j = 1 THEN Num(800 + i, 1) ELSE cells[i][j]]]

\* wide tables with a defect or a quirk: a label that is no year, a key
\* with three or five fields or a lower-case region, a numeric year column
IrregularWide ==
  UNION { { WideFrame(FillerKeys(sh[1], Key(PT)),
                      Append(SubSeq(GoodYearLabels, 1, sh[2] - 1), BadYearLabel),
                      FillerCells(sh[1], sh[2])),
            WideFrame(FillerKeys(sh[1], KeyThree),
                      SubSeq(GoodYearLabels, 1, sh[2]), FillerCells(sh[1], sh[2])),
            WideFrame(FillerKeys(sh[1], KeyFive),
                      SubSeq(GoodYearLabels, 1, sh[2]), FillerCells(sh[1], sh[2])),
            WideFrame(FillerKeys(sh[1], Key(ptLower)),
                      SubSeq(GoodYearLabels, 1, sh[2]), FillerCells(sh[1], sh[2])),
            WideFrame(FillerKeys(sh[1], Key(ES)),
                      SubSeq(GoodYearLabels, 1, sh[2]),
                      NumericFirstColumn(FillerCells(sh[1], sh[2]))) } :
          sh \in (1..MaxRows) \X (1..MaxYearCols) }

WideTables == RegularWide \cup IrregularWide

\* 'value' texts: the figures of the clean_types docstring, the
\* missing-data token, and texts with no digit or with two periods
ValueTexts ==
  { <<"2", "1", ".", "7", " ", "e">>, <<"1", "8", ".", "5", "*">>,
    <<"2", "0", ",", "5">>, <<":">>, <<" ", "7", ".", " ">>,
    <<"1", ".", "2", ".", "3">>, <<".">>, <<>> }

\* 'year' texts: plain, padded with whitespace, and not an integer
YearTexts == { <<"2", "0", "2", "0">>, <<" ", "2", "0", "2", "1", " ">>,
               BadYearLabel }

\* numeric 'year' cells: an integer, a float with a fraction, NaN
YearNumbers == {Num(2020, 0), Num(20205, 1), NaN}

\* numeric 'value' cells: a figure, NaN, an infinity
ValueNumbers == {Num(805, 1), NaN, Inf}

LongRow(region, year, value) ==
  <<Str(<<"Y">>), Str(<<"M">>), Str(<<"A">>), region, year, value>>

SeqsUpTo(S, n) == UNION { [1..k -> S] : k \in 0..n }

\* long tables as clean_types receives them: text fields (from a wide
\* file) or numeric fields (from a JSON file)
TextRows ==
  { LongRow(Str(PT), Str(y), Str(v)) :
      y \in YearTexts \ {BadYearLabel}, v \in ValueTexts }
  \cup { LongRow(Str(PT), Str(BadYearLabel), Str(v)) :
           v \in { <<":">>, <<"2", "1", ".", "7", " ", "e">> } }

TextLong ==
  { FrameOfRows(CanonicalColumns, rows) : rows \in SeqsUpTo(TextRows, MaxRows) }

NumericLong ==
  { FrameOfRows(CanonicalColumns, rows) :
      rows \in SeqsUpTo({ LongRow(Str(PT), y, v) :
                            y \in YearNumbers, v \in ValueNumbers }, MaxRows) }

\* long tables as a JSON file gives them, in three column layouts: the
\* canonical one, one with a seventh column, one with year and value swapped
JsonRows ==
  SeqsUpTo({ LongRow(Str(r), y, v) :
               r \in {PT, ES}, y \in {Num(2020, 0), Num(2021, 0)},
               v \in {Num(805, 1), NaN} }, MaxRows)

WithFlag(rows) == [i \in 1..Len(rows) |-> Append(rows[i], Str(<<"e">>))]

Swapped(rows) ==
  [i \in 1..Len(rows) |-> [j \in 1..6 |->
     IF j = 5 THEN rows[i][6] ELSE IF j = 6 THEN rows[i][5] ELSE rows[i][j]]]

JsonLong ==
  { FrameOfRows(CanonicalColumns, rows) : rows \in JsonRows }
  \cup { FrameOfRows(Append(CanonicalColumns, cFlag), WithFlag(rows)) :
           rows \in JsonRows }
  \cup { FrameOfRows(<<cUnit, cSex, cAge, cRegion, cValue, cYear>>, Swapped(rows)) :
           rows \in JsonRows }

\* long tables that lack unit, or unit, sex and age
PartialLong ==
  { FrameOfRows(SubSeq(CanonicalColumns, k, 6),
                [i \in 1..Len(rows) |-> SubSeq(rows[i], k, 6)]) :
      k \in {2, 4},
      rows \in SeqsUpTo({LongRow(Str(PT), Num(2020, 0), Num(805, 1))}, MaxRows) }

\* tables for filter_country alone: region, year and value columns, the
\* region a code, a code in lower case, or missing
RegionCells == {Str(PT), Str(ES), Str(ptLower), None}

RegionTables ==
  { FrameOfRows(<<cRegion, cYear, cValue>>,
                [i \in 1..Len(regions) |-> <<regions[i], Num(2020 + i, 0), Num(800 + i, 1)>>]) :
      regions \in SeqsUpTo(RegionCells, MaxRows + 1) }

\* what a path's file holds: nothing (no such file), or the frame the
\* loader's reader parses from it
NoFile == [exists |-> FALSE, frame |-> EmptyFrame]

FileOf(df) == [exists |-> TRUE, frame |-> df]

\* the JSON file's records: country and life_expectancy name the region
\* and the value, flag is a further field
JsonRecordColumns == <<cUnit, cSex, cAge, cCountry, cYear, cLifeExpectancy, cFlag>>

JsonFileRows == SeqsUpTo({ LongRow(Str(r), Num(2020, 0), v) :
                             r \in {PT, ES}, v \in {Num(805, 1), NaN} }, MaxRows)

JsonFiles ==
  { FileOf(FrameOfRows(JsonRecordColumns, WithFlag(rows))) : rows \in JsonFileRows }
  \cup { FileOf(FrameOfRows(<<cUnit, cSex, cAge, cRegion, cYear, cLifeExpectancy>>, rows)) :
           rows \in JsonFileRows }
  \cup { FileOf(FrameOfRows(<<cUnit, cSex, cAge, cCountry, cYear>>,
                            [i \in 1..Len(rows) |-> SubSeq(rows[i], 1, 5)])) :
           rows \in JsonFileRows }

WideFiles ==
  { FileOf(df) : df \in IrregularWide }
  \cup { FileOf(WideFrame(FillerKeys(sh[1], Key(ES)),
                          SubSeq(GoodYearLabels, 1, sh[2]), FillerCells(sh[1], sh[2]))) :
           sh \in Shapes }

Files == {NoFile} \cup JsonFiles \cup WideFiles

\* paths whose suffix names a format, in either case
KnownPaths ==
  { <<"d", "/", "f", ".", "t", "s", "v">>, <<"f", ".", "T", "S", "V">>,
    <<"f", ".", "j", "s", "o", "n">>, <<"f", ".", "J", "s", "o", "N">>,
    <<"f", ".", "t", "s", "v", ".", "j", "s", "o", "n">> }

\* paths with another suffix, with none, or with the format's name
\* elsewhere than in the suffix
OtherPaths ==
  { <<"f", ".", "c", "s", "v">>, <<"f", ".", "t", "s", "v", "x">>,
    <<"f">>, <<".", "t", "s", "v">>, <<"d", ".", "t", "s", "v", "/", "f">>,
    <<"j", "s", "o", "n">> }

Paths == KnownPaths \cup OtherPaths

\* a file of each kind, for the paths that name no format
SomeFiles ==
  { NoFile,
    FileOf(WideFrame(<<Key(PT)>>, SubSeq(GoodYearLabels, 1, 1), FillerCells(1, 1))),
    FileOf(FrameOfRows(JsonRecordColumns,
                       WithFlag(<<LongRow(Str(PT), Num(2020, 0), Num(805, 1))>>))) }

\* ------------------------------------------------------------------- state
VARIABLES
  entry,       \* the function the caller invoked
  pc,          \* the function about to run, "done" or "failed"
  path,        \* main's input_file
  file,        \* what the file at path holds
  country,     \* the requested region code
  arg,         \* the frame the caller passed to the entry function
  loader,      \* the loader get_data_loader returned
  df_loaded,   \* load_data's result (main's df_raw)
  df_raw,      \* clean_data's parameter df
  df_split,    \* split_metadata_columns' result
  df_long,     \* the frame given to clean_types
  df_typed,    \* clean_types' result
  df_country,  \* filter_country's result
  df_clean,    \* clean_data's result
  error,       \* the exception that ended the run
  calls,       \* the functions called so far, with their arguments
  reads,       \* how many times a file was read
  written,     \* the files written
  pending,     \* the frames the caller has still to pass to clean_data
  results,     \* the outcomes of the caller's finished clean_data calls
  heap,        \* the DataFrame objects that exist, by identity
  refs         \* the object each name is bound to, 0 when unbound

vars == <<entry, pc, path, file, country, arg, loader, df_loaded, df_raw,
          df_split, df_long, df_typed, df_country, df_clean, error, calls,
          reads, written, pending, results, heap, refs>>

\* the caller's own bookkeeping, which no function of the package touches
caller == <<pending, results>>

\* ---------------------------------------------------------------- objects
NoRefs == [loaded |-> 0, raw |-> 0, split |-> 0, long |-> 0, typed |-> 0,
           country |-> 0, clean |-> 0]

\* a new object holding the frame
New(h, df) == [heap |-> Append(h, df), ref |-> Len(h) + 1]

\* the same binding the name to the object itself, with no copy made
Copy_Alias(h, o) == [heap |-> h, ref |-> o]

\* df.copy(): a new object with the contents of object o
Copy(h, o) == New(h, h[o])

\* an assignment df[label] = ... made in place on object o
Store(h, o, df) == [h EXCEPT ![o] = df]

NoError == [fn |-> "none", kind |-> "none", supported |-> <<>>]

Call(fn, df, c, p) == [fn |-> fn, df |-> df, country |-> c, path |-> p]

Blank ==
  /\ loader = "None"
  /\ df_loaded = EmptyFrame
  /\ df_split = EmptyFrame
  /\ df_typed = EmptyFrame
  /\ df_country = EmptyFrame
  /\ df_clean = EmptyFrame
  /\ error = NoError
  /\ calls = <<>>
  /\ reads = 0
  /\ written = <<>>
  /\ pending = <<>>
  /\ results = <<>>

\* main(country, input_file)
InitMain ==
  /\ entry = "main" /\ pc = "load_data"
  /\ \/ path \in KnownPaths /\ file \in Files
     \/ path \in OtherPaths /\ file \in SomeFiles
  /\ country \in Regions
  /\ arg = EmptyFrame /\ df_raw = EmptyFrame /\ df_long = EmptyFrame
  /\ heap = <<>> /\ refs = NoRefs
  /\ Blank

\* clean_data(df, country)
InitCleanData ==
  /\ entry = "clean_data" /\ pc = "clean_data"
  /\ path = <<>> /\ file = NoFile /\ country \in {PT, ES}
  /\ arg \in WideTables \cup JsonLong \cup PartialLong
  /\ df_raw = arg /\ df_long = EmptyFrame
  /\ heap = <<arg>> /\ refs = [NoRefs EXCEPT !.raw = 1]
  /\ Blank

\* clean_types(df)
InitCleanTypes ==
  /\ entry = "clean_types" /\ pc = "clean_types"
  /\ path = <<>> /\ file = NoFile /\ country = PT
  /\ arg \in TextLong \cup NumericLong
  /\ df_raw = EmptyFrame /\ df_long = arg
  /\ heap = <<arg>> /\ refs = [NoRefs EXCEPT !.long = 1]
  /\ Blank

\* filter_country(df, country)
InitFilterCountry ==
  /\ entry = "filter_country" /\ pc = "filter_country"
  /\ path = <<>> /\ file = NoFile /\ country \in Regions
  /\ arg \in RegionTables
  /\ df_raw = EmptyFrame /\ df_long = EmptyFrame
  /\ df_typed = arg
  /\ heap = <<arg>> /\ refs = [NoRefs EXCEPT !.typed = 1]
  /\ loader = "None" /\ df_loaded = EmptyFrame /\ df_split = EmptyFrame
  /\ df_country = EmptyFrame /\ df_clean = EmptyFrame /\ error = NoError
  /\ calls = <<>> /\ reads = 0 /\ written = <<>>
  /\ pending = <<>> /\ results = <<>>

Init == InitMain \/ InitCleanData \/ InitCleanTypes \/ InitFilterCountry

\* the same with the exception caught and the run carried on to save_data
Fail_Swallowed(fn, kind, supported) ==
  /\ pc' = "save_data"
  /\ error' = [fn |-> fn, kind |-> kind, supported |-> supported]

\* an exception leaves the function and, unhandled, ends the run
Fail(fn, kind, supported) ==
  /\ pc' = "failed"
  /\ error' = [fn |-> fn, kind |-> kind, supported |-> supported]

\* load_data, line 29: the loader is chosen from the path alone
GetDataLoader ==
  /\ pc = "load_data"
  /\ calls' = Append(calls, Call("load_data", EmptyFrame, <<>>, path))
  /\ LET r == get_data_loader(path) IN
       /\ loader' = r.loader
       /\ IF r.ok THEN pc' = "load" /\ error' = error
          ELSE Fail("get_data_loader", r.err, r.supported)
  /\ UNCHANGED <<entry, path, file, country, arg, df_loaded, df_raw, df_split,
                 df_long, df_typed, df_country, df_clean, reads, written, caller,
                 heap, refs>>

\* load_data, line 30, and main's call of clean_data with its result: the
\* loader makes the frame, and clean_data's df is bound to that same object
LoadWith(r) ==
  /\ reads' = reads + 1
  /\ IF r.ok
       THEN /\ df_loaded' = r.df
            /\ df_raw' = r.df
            /\ heap' = New(heap, r.df).heap
            /\ refs' = [refs EXCEPT !.loaded = New(heap, r.df).ref,
                                    !.raw = New(heap, r.df).ref]
            /\ pc' = "clean_data"
            /\ error' = error
       ELSE /\ Fail("load", r.err, <<>>)
            /\ UNCHANGED <<df_loaded, df_raw, heap, refs>>
  /\ UNCHANGED <<entry, path, file, country, arg, loader, df_split, df_long,
                 df_typed, df_country, df_clean, calls, written, caller>>

LoadTSV == pc = "load" /\ loader = "TSVDataLoader" /\ LoadWith(TSVLoad(file))

LoadJSON == pc = "load" /\ loader = "JSONDataLoader" /\ LoadWith(JSONLoad(file))

\* clean_data, lines 172-183: the format is detected from the columns; a
\* long table goes to clean_types as the very object the caller passed
DetectFormat ==
  /\ pc = "clean_data"
  /\ calls' = Append(calls, Call("clean_data", heap[refs.raw], country, <<>>))
  /\ IF is_long_format(heap[refs.raw])
       THEN /\ pc' = "clean_types"
            /\ df_long' = heap[refs.raw]
            /\ refs' = [refs EXCEPT !.long = refs.raw]
       ELSE /\ pc' = "split_metadata_columns"
            /\ UNCHANGED <<df_long, refs>>
  /\ UNCHANGED <<entry, path, file, country, arg, loader, df_loaded, df_raw,
                 df_split, df_typed, df_country, df_clean, error, reads, written,
                 caller, heap>>

\* split_metadata_columns, lines 47-54: df is rebound to a copy and the
\* four columns are assigned on it; the check that raises comes before
\* any column is assigned
SplitMetadataColumns ==
  /\ pc = "split_metadata_columns"
  /\ LET c == Copy(heap, refs.raw)
         r == split_metadata_columns(c.heap[c.ref])
     IN IF r.ok
          THEN /\ heap' = Store(c.heap, c.ref, r.df)
               /\ refs' = [refs EXCEPT !.split = c.ref]
               /\ df_split' = r.df
               /\ pc' = "melt_years"
               /\ error' = error
          ELSE /\ Fail("split_metadata_columns", r.err, <<>>)
               /\ heap' = c.heap
               /\ UNCHANGED <<df_split, refs>>
  /\ UNCHANGED <<entry, path, file, country, arg, loader, df_loaded, df_raw,
                 df_long, df_typed, df_country, df_clean, calls, reads, written, caller>>

\* melt_years, lines 74-85: pd.melt builds a new frame
MeltYears ==
  /\ pc = "melt_years"
  /\ LET r == melt_years(heap[refs.split]) IN
       IF r.ok
         THEN /\ heap' = New(heap, r.df).heap
              /\ refs' = [refs EXCEPT !.long = New(heap, r.df).ref]
              /\ df_long' = r.df
              /\ pc' = "clean_types"
              /\ error' = error
         ELSE /\ Fail("melt_years", r.err, <<>>)
              /\ UNCHANGED <<df_long, heap, refs>>
  /\ UNCHANGED <<entry, path, file, country, arg, loader, df_loaded, df_raw,
                 df_split, df_typed, df_country, df_clean, calls, reads, written, caller>>

\* clean_types, lines 109-132: df is rebound to a copy, year and value are
\* assigned on it, and dropna returns a new frame
CleanTypes ==
  /\ pc = "clean_types"
  /\ LET c == Copy(heap, refs.long)
         r == clean_types(c.heap[c.ref])
         h == Store(c.heap, c.ref, AssignedInPlace(c.heap[c.ref]))
     IN IF r.ok
          THEN /\ heap' = New(h, r.df).heap
               /\ refs' = [refs EXCEPT !.typed = New(h, r.df).ref]
               /\ df_typed' = r.df
               /\ pc' = IF entry = "clean_types" THEN "done" ELSE "filter_country"
               /\ error' = error
          ELSE /\ Fail("clean_types", r.err, <<>>)
               /\ heap' = h
               /\ UNCHANGED <<df_typed, refs>>
  /\ UNCHANGED <<entry, path, file, country, arg, loader, df_loaded, df_raw,
                 df_split, df_long, df_country, df_clean, calls, reads, written, caller>>

\* filter_country, line 146: the selection is a new frame, and so is its copy
FilterCountry ==
  /\ pc = "filter_country"
  /\ LET r == filter_country(heap[refs.typed], country) IN
       IF r.ok
         THEN /\ LET s == New(heap, r.df)
                     c == Copy(s.heap, s.ref)
                 IN heap' = c.heap /\ refs' = [refs EXCEPT !.country = c.ref]
              /\ df_country' = r.df
              /\ pc' = IF entry = "filter_country" THEN "done" ELSE "reset_index"
              /\ error' = error
         ELSE /\ Fail("filter_country", r.err, <<>>)
              /\ UNCHANGED <<df_country, heap, refs>>
  /\ UNCHANGED <<entry, path, file, country, arg, loader, df_loaded, df_raw,
                 df_split, df_long, df_typed, df_clean, calls, reads, written, caller>>

\* clean_data, lines 187-189: reset_index returns a new frame, which is returned
ResetIndex ==
  /\ pc = "reset_index"
  /\ LET n == New(heap, reset_index(heap[refs.country])) IN
       /\ heap' = n.heap
       /\ refs' = [refs EXCEPT !.clean = n.ref]
       /\ df_clean' = n.heap[n.ref]
  /\ pc' = IF entry = "main" THEN "save_data" ELSE "done"
  /\ UNCHANGED <<entry, path, file, country, arg, loader, df_loaded, df_raw,
                 df_split, df_long, df_typed, df_country, error, calls, reads,
                 written, caller>>

\* save_data(df_clean, country=country): to_csv reads the frame
SaveData ==
  /\ pc = "save_data"
  /\ calls' = Append(calls, Call("save_data", heap[refs.clean], country, <<>>))
  /\ written' = Append(written, [name |-> OutputFile(country),
                                 csv |-> CsvOf(heap[refs.clean])])
  /\ pc' = "done"
  /\ UNCHANGED <<entry, path, file, country, arg, loader, df_loaded, df_raw,
                 df_split, df_long, df_typed, df_country, df_clean, error, reads,
                 caller, heap, refs>>

Next ==
  \/ GetDataLoader
  \/ LoadTSV
  \/ LoadJSON
  \/ DetectFormat
  \/ SplitMetadataColumns
  \/ MeltYears
  \/ CleanTypes
  \/ FilterCountry
  \/ ResetIndex
  \/ SaveData

Spec == Init /\ [][Next]_vars

\* ------------------------------------------- one file in its two formats
\* what a caller holding the same data as a wide table and as a long table
\* does: clean_data on the first, then clean_data on the second
Outcome(df, ok, out, kind) == [in |-> df, ok |-> ok, df |-> out, err |-> kind]

\* the years the labels of GoodYearLabels name
LabelYears == <<2021, 2020, 2019, 2018>>

\* the figure a cell of the wide file states; ": " states none
FigureOf(cell) ==
  IF cell = FlaggedCell THEN Num(75, 1) ELSE NaN

RegionOfKey(key) == IF key = Key(PT) THEN PT ELSE ES

\* the JSON records of the wide table's figures, entity by entity; a
\* missing figure is a null life_expectancy
LongOf(keys, years, cells) ==
  FrameOfRows(CanonicalColumns,
    [t \in 1..(Len(keys) * years) |->
       LET i == ((t - 1) \div years) + 1
           j == ((t - 1) % years) + 1
       IN LongRow(Str(RegionOfKey(keys[i])), Num(LabelYears[j], 0),
                  FigureOf(cells[i][j]))])

\* the same records without those whose figure is missing
WithoutNulls(df) ==
  TakeRows(df, MaskPositions([i \in 1..NRows(df) |-> Column(df, cValue)[i] # NaN], 1))

InitEquiv ==
  /\ entry = "clean_data" /\ pc = "clean_data"
  /\ path = <<>> /\ file = NoFile /\ country \in {PT, ES}
  /\ \E sh \in Shapes :
       \E keys \in [1..sh[1] -> {Key(PT), Key(ES)}],
          cells \in [1..sh[1] -> WideRows(sh[2])] :
         /\ arg = WideFrame(keys, SubSeq(GoodYearLabels, 1, sh[2]), cells)
         /\ \/ pending = << LongOf(keys, sh[2], cells) >>
            \/ pending = << reset_index(WithoutNulls(LongOf(keys, sh[2], cells))) >>
  /\ df_raw = arg /\ df_long = EmptyFrame
  /\ heap = <<arg>> /\ refs = [NoRefs EXCEPT !.raw = 1]
  /\ loader = "None" /\ df_loaded = EmptyFrame /\ df_split = EmptyFrame
  /\ df_typed = EmptyFrame /\ df_country = EmptyFrame /\ df_clean = EmptyFrame
  /\ error = NoError /\ calls = <<>> /\ reads = 0 /\ written = <<>>
  /\ results = <<>>

\* the first call has ended: its outcome is kept and clean_data is called
\* on the other table
NextCall ==
  /\ pc \in {"done", "failed"}
  /\ pending # <<>>
  /\ results' = Append(results, Outcome(arg, pc = "done", df_clean, error.kind))
  /\ pending' = Tail(pending)
  /\ arg' = Head(pending)
  /\ df_raw' = Head(pending)
  /\ pc' = "clean_data"
  /\ df_split' = EmptyFrame /\ df_long' = EmptyFrame /\ df_typed' = EmptyFrame
  /\ df_country' = EmptyFrame /\ df_clean' = EmptyFrame
  /\ error' = NoError /\ calls' = <<>>
  /\ heap' = <<Head(pending)>> /\ refs' = [NoRefs EXCEPT !.raw = 1]
  /\ UNCHANGED <<entry, path, file, country, loader, df_loaded, reads, written>>

NextEquiv ==
  \/ DetectFormat
  \/ SplitMetadataColumns
  \/ MeltYears
  \/ CleanTypes
  \/ FilterCountry
  \/ ResetIndex
  \/ NextCall

SpecEquiv == InitEquiv /\ [][NextEquiv]_vars

\* ----------------------------------------------------------------- claims
\* where the run stands: the function about to run, or the one that raised
Position == IF pc = "failed" THEN error.fn ELSE pc

StageRank(name) ==
  CASE name = "load_data" -> 1
    [] name = "get_data_loader" -> 1
    [] name = "load" -> 2
    [] name = "clean_data" -> 3
    [] name = "split_metadata_columns" -> 4
    [] name = "melt_years" -> 5
    [] name = "clean_types" -> 6
    [] name = "filter_country" -> 7
    [] name = "reset_index" -> 8
    [] name = "save_data" -> 9
    [] name = "done" -> 10

\* clean_types was called on df_long and has returned df_typed
TypesReturned == entry # "filter_country" /\ StageRank(Position) > 6

\* clean_types was called on df_long and raised
TypesRaised == pc = "failed" /\ error.fn = "clean_types"

\* filter_country was called on df_typed and has returned df_country
FilterReturned == entry # "clean_types" /\ StageRank(Position) > 7

\* split_metadata_columns and melt_years have both returned, on df_raw
MeltReturned ==
  /\ entry \in {"main", "clean_data"}
  /\ StageRank(Position) > 5
  /\ ~is_long_format(df_raw)

\* clean_data has returned df_clean
CleanReturned == entry \in {"main", "clean_data"} /\ StageRank(Position) > 8

\* the cell of the frame's row i under a label
CellAt(df, i, label) == Column(df, label)[i]

AllText(df, label) ==
  HasColumn(df, label) /\ \A i \in 1..NRows(df) : CellAt(df, i, label).k = "str"

\* --- C1
\* what is left of a text once its surrounding whitespace and every
\* character other than an ASCII digit or a period are gone
C1_Kept(s) == SelectSeq(s, LAMBDA c : c \in Digits \cup {"."})

C1_Periods(s) == Cardinality({i \in 1..Len(s) : s[i] = "."})

\* a floating-point literal: digits around at most one period, one digit
\* at least
C1_Parses(s) ==
  C1_Periods(C1_Kept(s)) <= 1 /\ Len(C1_Kept(s)) > C1_Periods(C1_Kept(s))

\* the literal's number as a cell: its digits read as an integer, scaled
\* by the count of digits that follow the period
C1_Number(s) ==
  LET t == C1_Kept(s)
      p == CHOOSE i \in 0..Len(t) : IF C1_Periods(t) = 0 THEN i = 0 ELSE (i > 0 /\ t[i] = ".")
      ds == SelectSeq(t, LAMBDA c : c # ".")
  IN Num(DigitsValue(ds), IF p = 0 THEN 0 ELSE Len(t) - p)

\* the rows of the input whose value parses, in input order
C1_Survivors(df) ==
  SelectSeq([i \in 1..NRows(df) |-> i],
            LAMBDA i : C1_Parses(CellAt(df, i, cValue).s))

\* the figures the docstring of clean_types and the spec give
C1_Documented ==
  /\ ToNumeric(Str(CleanValueText(Str(<<"2", "1", ".", "7", " ", "e">>)))) = Num(217, 1)
  /\ ToNumeric(Str(CleanValueText(Str(<<"1", "8", ".", "5", "*">>)))) = Num(185, 1)
  /\ ToNumeric(Str(CleanValueText(Str(<<"2", "0", ",", "5">>)))) = Num(205, 0)
  /\ ToNumeric(Str(CleanValueText(Str(<<":">>)))) = NaN

\* C1: given a table whose value column is text, clean_types keeps exactly
\* the rows whose value parses as a floating-point number once stripped and
\* rid of every character other than a digit or a period, in input order,
\* each with that number as its value ("21.7 e" -> 21.7, "18.5*" -> 18.5,
\* "20,5" -> 205.0) and its other fields as they were; a row whose value
\* does not parse (":") is removed and raises nothing: when clean_types
\* raises, it is over a year, never over a value.
C1_CleanTypesKeepsParsableValues ==
  /\ C1_Documented
  /\ (TypesReturned /\ AllText(df_long, cValue)) =>
       LET keep == C1_Survivors(df_long) IN
       /\ NRows(df_typed) = Len(keep)
       /\ df_typed.columns = df_long.columns
       /\ \A r \in 1..Len(keep) :
            /\ df_typed.index[r] = df_long.index[keep[r]]
            /\ CellAt(df_typed, r, cValue)
                 = C1_Number(CellAt(df_long, keep[r], cValue).s)
            /\ \A p \in 1..Len(MetadataColumns) :
                 CellAt(df_typed, r, MetadataColumns[p])
                   = CellAt(df_long, keep[r], MetadataColumns[p])
  /\ (TypesRaised /\ AllText(df_long, cValue)) =>
       \E i \in 1..NRows(df_long) : ~CanAsInt(StrStrip(CellAt(df_long, i, cYear)))

\* clean_types returned a table from which it removed a row with
\* unparsable text and in which it kept "20,5" as 205.0
C1_Witness ==
  /\ TypesReturned /\ AllText(df_long, cValue)
  /\ NRows(df_typed) < NRows(df_long)
  /\ \E i \in 1..NRows(df_long) : CellAt(df_long, i, cValue) = Str(<<":">>)
  /\ \E r \in 1..NRows(df_typed) : CellAt(df_typed, r, cValue) = Num(205, 0)

\* --- C2
\* the frame's rows, each with its index label
C2_Labelled(df) == [i \in 1..NRows(df) |-> <<df.index[i], Row(df, i)>>]

C2_WitnessEmpty ==
  /\ entry = "filter_country" /\ pc = "done"
  /\ NRows(df_typed) > 0 /\ NRows(df_country) = 0

\* --- C3
C3_TsvPaths == { <<"d", "/", "f", ".", "t", "s", "v">>, <<"f", ".", "T", "S", "V">> }

C3_JsonPaths ==
  { <<"f", ".", "j", "s", "o", "n">>, <<"f", ".", "J", "s", "o", "N">>,
    <<"f", ".", "t", "s", "v", ".", "j", "s", "o", "n">> }

\* get_data_loader has run on path
C3_Chosen == entry = "main" /\ pc # "load_data"

\* C3: get_data_loader decides on the path's suffix alone, compared without
\* regard to case: the TSV loader for .tsv, the JSON loader for .json, and
\* for any other suffix or none an unsupported-format error (a ValueError)
\* that lists .tsv and .json, raised before any file is read.
C3_LoaderBySuffix ==
  C3_Chosen =>
    /\ (path \in C3_TsvPaths) <=> (loader = "TSVDataLoader")
    /\ (path \in C3_JsonPaths) <=> (loader = "JSONDataLoader")
    /\ (path \notin C3_TsvPaths \cup C3_JsonPaths) =>
         /\ pc = "failed"
         /\ error.fn = "get_data_loader"
         /\ error.kind = "ValueError"
         /\ \E i, j \in 1..Len(error.supported) :
              error.supported[i] = TsvSuffix /\ error.supported[j] = JsonSuffix
         /\ reads = 0
         /\ df_loaded = EmptyFrame
    /\ (path \in C3_TsvPaths \cup C3_JsonPaths) => error.fn # "get_data_loader"

\* a path with the suffix .csv was refused, with no file read
C3_Witness ==
  /\ entry = "main" /\ pc = "failed" /\ error.fn = "get_data_loader"
  /\ path = <<"f", ".", "c", "s", "v">>
  /\ reads = 0

\* a path with an upper-case suffix got its loader
C3_WitnessUpper ==
  /\ entry = "main" /\ path = <<"f", ".", "T", "S", "V">> /\ loader = "TSVDataLoader"

\* --- C4, C5
\* a wide table none of whose columns bears a metadata name: every column
\* after the first is a year column
C4_Wide(df) ==
  /\ NCols(df) >= 1
  /\ \A p \in 1..Len(MetadataColumns) : ~HasColumn(df, MetadataColumns[p])

\* output row t of the long table is the input's row i, year column j
C4_Carries(t, i, j) ==
  /\ t \in 1..NRows(df_long)
  /\ df_long.index[t] = t - 1
  /\ CellAt(df_long, t, cYear) = Str(df_raw.columns[j + 1])
  /\ CellAt(df_long, t, cValue) = df_raw.data[j + 1][i]

\* C4 as stated: the long table lists its rows source row by source row:
\* row i, year j (both from 0) is at position i*Y + j.
C4_RowMajorAsStated ==
  (MeltReturned /\ C4_Wide(df_raw)) =>
    LET R == NRows(df_raw)
        Y == NCols(df_raw) - 1
    IN \A i \in 1..R, j \in 1..Y : C4_Carries((i - 1) * Y + j, i, j)

\* C4, amended: the long table lists its rows year column by year column,
\* the columns in their left-to-right order and, within a column, the
\* source rows in their order: row i, year j (both from 0) of R rows is at
\* position j*R + i.
C4_MeltColumnMajor ==
  (MeltReturned /\ C4_Wide(df_raw)) =>
    LET R == NRows(df_raw)
        Y == NCols(df_raw) - 1
    IN \A i \in 1..R, j \in 1..Y : C4_Carries((j - 1) * R + i, i, j)

\* a table of two rows or more and two year columns or more was melted
C4_Witness ==
  /\ MeltReturned /\ C4_Wide(df_raw)
  /\ NRows(df_raw) >= 2 /\ NCols(df_raw) >= 3
  /\ df_raw.data[2][2] # df_raw.data[3][1]

\* a wide table as the spec describes it: each composed cell is text with
\* exactly four comma-separated fields
C5_WellFormed(df) ==
  /\ C4_Wide(df)
  /\ \A i \in 1..NRows(df) :
       df.data[1][i].k = "str" /\ Len(SplitOn(df.data[1][i].s, ",")) = 4

\* clean_data took df_raw for a wide table and has run the two reshaping
\* functions on it to their end
C5_Reshaped ==
  /\ entry \in {"main", "clean_data"}
  /\ StageRank(Position) >= 4
  /\ pc \notin {"split_metadata_columns", "melt_years"}
  /\ ~is_long_format(df_raw)

C5_RowOf(t, i, j) ==
  /\ \A p \in 1..4 :
       CellAt(df_long, t, MetadataColumns[p])
         = Str(SplitOn(df_raw.data[1][i].s, ",")[p])
  /\ CellAt(df_long, t, cYear) = Str(df_raw.columns[j + 1])
  /\ CellAt(df_long, t, cValue) = df_raw.data[j + 1][i]

\* C5: for a wide table of R rows and Y year columns,
\* split_metadata_columns then melt_years yield exactly R*Y rows, one for
\* each (source row, year column) pair, with the source row's unit, sex,
\* age and region, the column's label as year and the cell as value.
C5_LongHasOneRowPerPair ==
  (C5_Reshaped /\ C5_WellFormed(df_raw)) =>
    LET R == NRows(df_raw)
        Y == NCols(df_raw) - 1
    IN /\ Position \notin {"split_metadata_columns", "melt_years"}
       /\ NRows(df_long) = R * Y
       /\ \A i \in 1..R, j \in 1..Y : \E t \in 1..NRows(df_long) : C5_RowOf(t, i, j)

\* the same for the tables that have a data row at least
C5_HoldsWithRows == NRows(df_raw) >= 1 => C5_LongHasOneRowPerPair

\* --- C6
\* s is an integer literal: an optional sign, then digits only
C6_IsInteger(s) ==
  \E a \in 1..Len(s) :
    /\ \A i \in 1..(a - 1) : s[i] \in Whitespace
    /\ \E b \in a..Len(s) :
         /\ \A i \in (b + 1)..Len(s) : s[i] \in Whitespace
         /\ \E d \in a..b :
              /\ d - a <= 1
              /\ \A i \in a..(d - 1) : s[i] \in {"+", "-"}
              /\ \A i \in d..b : s[i] \in Digits

\* some row of the frame has a text year that is no integer
C6_BadYear(df) ==
  /\ HasColumn(df, cYear)
  /\ \E i \in 1..NRows(df) :
       CellAt(df, i, cYear).k = "str" /\ ~C6_IsInteger(CellAt(df, i, cYear).s)

\* clean_types has run on df_long, to a result or to an exception
C6_TypesRan == TypesReturned \/ TypesRaised

\* C6: when a row given to clean_types has a text year that is no integer,
\* clean_types raises, and with it clean_data and main: no table is
\* returned, none is filtered or written, whatever the row's value or region.
C6_BadYearRaises ==
  (C6_TypesRan /\ C6_BadYear(df_long)) =>
    /\ TypesRaised
    /\ df_typed = EmptyFrame
    /\ df_country = EmptyFrame
    /\ df_clean = EmptyFrame
    /\ written = <<>>

\* clean_data raised over a year label although no row of the table was
\* of the requested region
C6_Witness ==
  /\ entry = "clean_data" /\ TypesRaised /\ C6_BadYear(df_long)
  /\ NRows(df_long) > 0
  /\ \A i \in 1..NRows(df_long) : CellAt(df_long, i, cRegion) # Str(country)

\* clean_types raised over a row whose value does not parse either
C6_WitnessBadValue ==
  /\ entry = "clean_types" /\ TypesRaised
  /\ \E i \in 1..NRows(df_long) :
       /\ CellAt(df_long, i, cYear) = Str(<<"2", "0", "2", "x">>)
       /\ CellAt(df_long, i, cValue) = Str(<<":">>)

\* --- C7
\* C7: every row clean_types returns has an integer year and a finite
\* number as its value: neither NaN nor an infinity.
C7_SurvivorsIntegerAndFinite ==
  TypesReturned =>
    \A r \in 1..NRows(df_typed) :
      /\ IsIntegral(CellAt(df_typed, r, cYear))
      /\ CellAt(df_typed, r, cValue).k = "num"

\* what does hold: an integer year, and a value that is not NaN
C7_SurvivorsIntegerAndNotNaN ==
  TypesReturned =>
    \A r \in 1..NRows(df_typed) :
      /\ IsIntegral(CellAt(df_typed, r, cYear))
      /\ CellAt(df_typed, r, cValue).k \in {"num", "inf"}

\* --- C9
\* C9 as stated: whatever table clean_data was given, the table it returns
\* has exactly the columns unit, sex, age, region, year, value, in that order.
C9_AlwaysCanonicalAsStated == CleanReturned => df_clean.columns = CanonicalColumns

\* C9, amended: the table clean_data returns has exactly the columns unit,
\* sex, age, region, year, value, in that order, when the input was detected
\* as wide; when it was detected as long, it has the input's columns in the
\* input's order, which are those six in that order when the input came
\* from a loader, as in main.
C9_ColumnsOfCleanData ==
  CleanReturned =>
    /\ ~is_long_format(df_raw) => df_clean.columns = CanonicalColumns
    /\ is_long_format(df_raw) => df_clean.columns = df_raw.columns
    /\ entry = "main" => df_clean.columns = CanonicalColumns

\* clean_data returned the table of a wide input, with rows in it
C9_Witness ==
  /\ CleanReturned /\ ~is_long_format(df_raw)
  /\ NRows(df_clean) > 0

\* clean_data returned the table of a long input that had a seventh column
C9_WitnessLong ==
  /\ CleanReturned /\ is_long_format(df_raw)
  /\ NCols(df_clean) = 7

\* --- C10
\* the calls main makes, in its order, with the arguments it passes
C10_Script ==
  << Call("load_data", EmptyFrame, <<>>, path),
     Call("clean_data", df_loaded, country, <<>>),
     Call("save_data", df_clean, country, <<>>) >>

\* how many of its calls main has made: none before load_data, one until
\* clean_data is entered, two until save_data is, three at the end
C10_Made ==
  CASE pc = "load_data" -> 0
    [] Position \in {"get_data_loader", "load"} \/ pc = "clean_data" -> 1
    [] pc = "done" -> 3
    [] OTHER -> 2

\* C10: main calls load_data once, then clean_data once on the table
\* load_data returned and with the requested region, then save_data once on
\* the table clean_data returned and with the same region; when load_data
\* or clean_data raises, the run ends there: save_data is not called and
\* no file is written.
C10_MainCallsInOrder ==
  entry = "main" =>
    /\ calls = SubSeq(C10_Script, 1, C10_Made)
    /\ pc = "done" =>
         /\ error = NoError
         /\ written = << [name |-> OutputFile(country), csv |-> CsvOf(df_clean)] >>
    /\ pc = "failed" =>
         /\ error # NoError
         /\ written = <<>>
         /\ \A c \in 1..Len(calls) : calls[c].fn # "save_data"
    /\ pc \notin {"done", "failed"} => written = <<>> /\ error = NoError
    /\ reads <= 1

\* main ended on an exception of clean_data, after reading the file, and
\* wrote nothing
C10_Witness ==
  /\ entry = "main" /\ pc = "failed" /\ error.fn = "clean_types"
  /\ Len(calls) = 2 /\ reads = 1 /\ written = <<>>

\* main ran to its end and wrote the cleaned table
C10_WitnessDone ==
  /\ entry = "main" /\ pc = "done" /\ Len(calls) = 3
  /\ Len(written) = 1 /\ NRows(df_clean) > 0

\* --- C8
\* both calls have ended: the wide table's outcome is kept, the long
\* table's is the current one
C8_BothEnded == Len(results) = 1 /\ pending = <<>> /\ pc \in {"done", "failed"}

\* how often a row occurs in a frame
C8_Count(df, row) == Cardinality({i \in 1..NRows(df) : Row(df, i) = row})

\* the two frames hold the same rows, each as often, in whatever order
C8_SameRows(a, b) ==
  /\ a.columns = b.columns
  /\ NRows(a) = NRows(b)
  /\ \A i \in 1..NRows(a) : C8_Count(a, Row(a, i)) = C8_Count(b, Row(a, i))

\* C8: clean_data, given a wide table and a long table that state the same
\* figures, and the same region code, returns the same rows with the same
\* values for both, order aside.
C8_WideAndLongCleanAlike ==
  C8_BothEnded =>
    /\ results[1].ok
    /\ pc = "done"
    /\ C8_SameRows(results[1].df, df_clean)

\* the same for the tables that have a data row at least
C8_HoldsWithRows ==
  (C8_BothEnded /\ NRows(results[1].in) >= 1) => C8_WideAndLongCleanAlike

\* both calls returned rows, in different orders
C8_WitnessReordered ==
  /\ C8_BothEnded /\ pc = "done" /\ results[1].ok
  /\ NRows(df_clean) >= 2
  /\ Rows(df_clean) # Rows(results[1].df)

\* ---------------------------------------------------------------- C11
\* clean_data has chosen its branch
C11_Detected == entry \in {"main", "clean_data"} /\ StageRank(Position) > 3

\* the table lacks at least one of the six canonical column names
C11_LacksSome(df) ==
  \E p \in 1..Len(CanonicalColumns) : ~HasColumn(df, CanonicalColumns[p])

\* split_metadata_columns was called: it is about to run, it raised, or
\* it returned the frame melt_years is given
C11_Normalized ==
  Position \in {"split_metadata_columns", "melt_years"} \/ df_split # EmptyFrame

\* C11: clean_data applies the shape normalizer (split_metadata_columns
\* then melt_years) if and only if its input lacks at least one of the
\* six column names unit, sex, age, region, year, value; when all six are
\* present, the frame given to clean_types is the input itself: the same
\* columns, the same rows in the same order, the same cells.
C11_NormalizerIffNotLong ==
  C11_Detected =>
    /\ C11_Normalized <=> C11_LacksSome(df_raw)
    /\ ~C11_LacksSome(df_raw) => df_long = df_raw /\ df_split = EmptyFrame
    /\ C11_LacksSome(df_raw) /\ StageRank(Position) > 4 =>
         df_split = split_metadata_columns(df_raw).df
    /\ C11_LacksSome(df_raw) /\ StageRank(Position) > 5 =>
         df_long = melt_years(df_split).df

\* a long table with a seventh column has reached clean_types unchanged
C11_Witness ==
  /\ C11_Detected /\ entry = "clean_data"
  /\ HasColumn(df_raw, cFlag) /\ NRows(df_raw) = 2
  /\ ~C11_Normalized /\ df_long = df_raw

\* a table with region, year and value but no unit was sent to the normalizer
C11_WitnessPartial ==
  /\ C11_Detected /\ entry = "clean_data"
  /\ HasColumn(df_raw, cYear) /\ ~HasColumn(df_raw, cUnit)
  /\ C11_Normalized

\* a wide table has been through both steps of the normalizer
C11_WitnessWide ==
  /\ C11_Detected /\ C11_LacksSome(df_raw)
  /\ StageRank(Position) > 5 /\ NRows(df_long) = 4

\* ---------------------------------------------------------------- C12
\* the object the name is bound to still holds the frame it held when it
\* was passed
C12_Intact(name, df) == refs[name] # 0 => heap[refs[name]] = df

\* the table the caller passed to the function it invoked
C12_CallerTable == entry # "main" => heap[1] = arg

\* C12: no stage mutates its input: once split_metadata_columns,
\* melt_years, clean_types, filter_country or clean_data has returned or
\* failed, the table object it was passed (the caller's table, main's
\* loaded table, and each stage's argument inside clean_data) has the same
\* columns, the same rows and the same cells as when it was passed.
C12_NoStageMutatesItsInput ==
  /\ C12_CallerTable
  /\ C12_Intact("loaded", df_loaded)
  /\ C12_Intact("raw", df_raw)
  /\ C12_Intact("split", df_split)
  /\ C12_Intact("long", df_long)
  /\ C12_Intact("typed", df_typed)
  /\ C12_Intact("country", df_country)

\* clean_data has returned on a long table, which went to clean_types as
\* the caller's own object and lost a row there
C12_Witness ==
  /\ entry = "clean_data" /\ pc = "done"
  /\ refs.long = refs.raw /\ refs.raw = 1
  /\ NRows(arg) = 2 /\ NRows(df_typed) = 1
  /\ heap[refs.typed] # heap[1]

\* clean_data has returned on a wide table, whose copy got the four columns
C12_WitnessWide ==
  /\ entry = "clean_data" /\ pc = "done"
  /\ refs.split # 0 /\ NRows(arg) = 2
  /\ NCols(heap[refs.split]) = NCols(arg) + 4

\* clean_types has failed on a text table after copying it
C12_WitnessFailed ==
  /\ entry = "clean_types" /\ pc = "failed" /\ error.fn = "clean_types"
  /\ NRows(arg) = 2 /\ Len(heap) = 2

====
